---- MODULE Spec2Model ----
(***************************************************************************)
(* tika: Markdown + front-matter indexer and query tool (src/src/main.rs). *)
(*                                                                         *)
(* main() builds an in-RAM index from the globbed files, commits once, and *)
(* then either answers one batch query or runs the interactive finder.     *)
(* Strings are sequences of one-character strings so that tokenising,      *)
(* joining and parsing are computed rather than assumed.                   *)
(***************************************************************************)
EXTENDS Integers, Sequences, FiniteSets, TLC

(* ------------------------------ bounds --------------------------------- *)
MaxFiles == 2      \* entries the glob yields
MaxDocs == 102     \* entries the glob yields for the large corpora
MaxInput == 2      \* characters in the input box
MaxSel == 2      \* distance the highlighted index may drift from 0 / usize::MAX
ListHeight == 1  \* rows of the terminal area the result list is drawn in

(* usize is 64 bits wide in the program; TLC integers are 32 bits wide, so *)
(* the wrap-around arithmetic of release builds is modelled at 16 bits.    *)
UsizeBits == 16
UsizeMod == 2 ^ UsizeBits
UsizeMax == UsizeMod - 1

Limit == 100       \* TopDocs::with_limit(100)

(* ------------------------------ strings -------------------------------- *)
Quote == "\""
Alnum ==
  {"a", "b", "n", "f", "o", "0", "1", "2", "3", "4", "5", "6", "7", "8", "9"}
Keys == {"a", "b", Quote}      \* printable characters the user may type

None == <<>>
Some(i) == <<i>>

RECURSIVE SplitAcc(_, _, _)
SplitAcc(s, cur, acc) ==
  IF s = <<>>
    THEN IF cur = <<>> THEN acc ELSE acc \cup {cur}
    ELSE IF Head(s) \in Alnum
      THEN SplitAcc(Tail(s), Append(cur, Head(s)), acc)
      ELSE SplitAcc(Tail(s), <<>>, IF cur = <<>> THEN acc ELSE acc \cup {cur})

\* the index engine's default tokenizer: maximal alphanumeric runs
Tokenize(s) == SplitAcc(s, <<>>, {})

RECURSIVE Join(_)
\* Vec<String>::join(" ")
Join(ts) ==
  IF ts = <<>> THEN <<>>
  ELSE IF Len(ts) = 1 THEN ts[1]
  ELSE ts[1] \o <<" ">> \o Join(Tail(ts))

RECURSIVE CountQuotes(_)
CountQuotes(s) ==
  IF s = <<>> THEN 0
  ELSE (IF Head(s) = Quote THEN 1 ELSE 0) + CountQuotes(Tail(s))

(* ------------------------------- dates --------------------------------- *)
(* A date string "2021-06-DDThh:48:16<zone>" is kept as its day, its hour  *)
(* and the way its zone is written: "Z", "+hh:mm" (colon), "+hhmm"         *)
(* (nocolon) or no zone at all; off is the zone's offset in hours.         *)
MkDate(day, hour, zone, off) ==
  [day |-> day, hour |-> hour, zone |-> zone, off |-> off]

FieldsValid(d) == d.day \in 1..30 /\ d.hour \in 0..23

\* DateTime::parse_from_rfc3339: the zone is "Z" or "+hh:mm"
ParseRfc3339(d) ==
  IF FieldsValid(d) /\ d.zone \in {"Z", "colon"}
    THEN <<[day |-> d.day, hour |-> d.hour, off |-> IF d.zone = "Z" THEN 0 ELSE d.off]>>
    ELSE None

\* DateTime::parse_from_str(.., "%Y-%m-%dT%T%z"): %z takes "+hhmm" and "+hh:mm"
ParseFallback(d) ==
  IF FieldsValid(d) /\ d.zone \in {"colon", "nocolon"}
    THEN <<[day |-> d.day, hour |-> d.hour, off |-> d.off]>>
    ELSE None

\* ParseDate with a default instant in place of the `continue` branch
ParseDateOrDefault(d) ==
  IF ParseRfc3339(d) # None THEN ParseRfc3339(d)
  ELSE IF ParseFallback(d) # None THEN ParseFallback(d)
  ELSE <<[day |-> 1, hour |-> 0, off |-> 0]>>

\* lines 258-268: the two-format date parse; None is the `continue` branch
ParseDate(d) ==
  IF ParseRfc3339(d) # None THEN ParseRfc3339(d)
  ELSE IF ParseFallback(d) # None THEN ParseFallback(d)
  ELSE None

\* t.with_timezone(&chrono::Utc)
WithTimezoneUtc(t) ==
  LET h == t.hour - t.off
  IN  IF h < 0 THEN [day |-> t.day - 1, hour |-> h + 24]
      ELSE IF h > 23 THEN [day |-> t.day + 1, hour |-> h - 24]
      ELSE [day |-> t.day, hour |-> h]

(* ------------------------------- corpus -------------------------------- *)
(* One glob entry: the glob may fail on it; the file may be unreadable;    *)
(* its front matter may be absent or lack a required key.                  *)
MkEntry(glob, readable, fm, keys, title, date, tags) ==
  [glob |-> glob, readable |-> readable, fm |-> fm, keys |-> keys,
   title |-> title, date |-> date, tags |-> tags]

AllKeys == {"title", "date", "tags"}

\* the YAML value of the tags key: a scalar string, a sequence of strings,
\* or a scalar that is not a string
Scalar(s) == [kind |-> "str", str |-> s, seq |-> <<>>]
Sequence(ts) == [kind |-> "seq", str |-> <<>>, seq |-> ts]
Integer == [kind |-> "int", str |-> <<>>, seq |-> <<>>]

RECURSIVE Dedup(_)
Dedup(ts) ==
  IF ts = <<>> THEN <<>>
  ELSE <<Head(ts)>> \o Dedup(SelectSeq(Tail(ts), LAMBDA t : t # Head(ts)))

\* string_or_list_string collecting a sequence without its duplicates
string_or_set_string(v) ==
  IF v.kind = "str" THEN [ok |-> TRUE, val |-> <<v.str>>]
  ELSE IF v.kind = "seq" THEN [ok |-> TRUE, val |-> Dedup(v.seq)]
  ELSE [ok |-> FALSE, val |-> <<>>]

\* lines 123-153: visit_str wraps the string, visit_seq collects the
\* sequence, any other value is an error
string_or_list_string(v) ==
  IF v.kind = "str" THEN [ok |-> TRUE, val |-> <<v.str>>]
  ELSE IF v.kind = "seq" THEN [ok |-> TRUE, val |-> v.seq]
  ELSE [ok |-> FALSE, val |-> <<>>]

GoodRfc == MkDate(22, 12, "colon", -4)
GoodFallback == MkDate(22, 12, "nocolon", -4)
GoodZulu == MkDate(30, 23, "Z", 0)
BadDate == MkDate(22, 12, "none", 0)

NoTags == Sequence(<<>>)

GlobError == MkEntry("err", FALSE, "none", {}, <<>>, BadDate, NoTags)
Unreadable == MkEntry("ok", FALSE, "none", {}, <<>>, BadDate, NoTags)
NoFrontMatter == MkEntry("ok", TRUE, "none", {}, <<>>, BadDate, NoTags)
BadYaml == MkEntry("ok", TRUE, "bad", {}, <<>>, BadDate, NoTags)
NoTitle == MkEntry("ok", TRUE, "yaml", {"date", "tags"}, <<>>, GoodRfc, Scalar(<<"a">>))
NoDate == MkEntry("ok", TRUE, "yaml", {"title", "tags"}, <<"a">>, BadDate, Scalar(<<"a">>))
IntTags == MkEntry("ok", TRUE, "yaml", AllKeys, <<"a">>, GoodRfc, Integer)
BadDateNote == MkEntry("ok", TRUE, "yaml", AllKeys, <<"a">>, BadDate, Scalar(<<"a">>))
NoteA == MkEntry("ok", TRUE, "yaml", AllKeys, <<"a">>, GoodRfc, NoTags)
NoteAB ==
  MkEntry("ok", TRUE, "yaml", AllKeys, <<"a", "b">>, GoodFallback,
          Sequence(<<<<"f">>, <<"a">>, <<"f">>>>))
NoteB == MkEntry("ok", TRUE, "yaml", AllKeys, <<"b">>, GoodZulu, Scalar(<<"f">>))

FileContents ==
  {GlobError, Unreadable, NoFrontMatter, BadYaml, NoTitle, NoDate, IntTags,
   BadDateNote, NoteA, NoteAB, NoteB}

Digit == <<"0", "1", "2", "3", "4", "5", "6", "7", "8", "9">>

RECURSIVE Decimal(_)
Decimal(k) ==
  IF k < 10 THEN <<Digit[k + 1]>>
  ELSE Decimal(k \div 10) \o <<Digit[(k % 10) + 1]>>

\* the k-th path of the glob expansion; glob yields each path once
PathOf(k) == <<"n">> \o Decimal(k)

Corpora == UNION {[1..n -> FileContents] : n \in 0..MaxFiles}

\* the corpora every file of which index_file loads
Notes == UNION {[1..n -> {BadDateNote, NoteA, NoteAB, NoteB}] : n \in 0..MaxFiles}

\* large corpora of one matching note each, around the search limit
BigCorpora == {[k \in 1..n |-> NoteA] : n \in (Limit - 1)..MaxDocs}

(* ----------------------------- index_file ------------------------------ *)
\* lines 479-505: Ok(doc), Err(io::Error) or a panic of one of the unwraps
index_file(k, e) ==
  IF ~e.readable THEN [res |-> "err"]                       \* line 480 `?`
  ELSE IF e.fm = "bad" THEN [res |-> "panic"]               \* line 482 unwrap
  ELSE IF e.fm = "none" THEN [res |-> "err"]                \* line 500
  ELSE IF ~(AllKeys \subseteq e.keys) THEN [res |-> "panic"] \* line 491 unwrap
  ELSE IF ~string_or_list_string(e.tags).ok THEN [res |-> "panic"] \* line 491
  ELSE [res |-> "ok",
        doc |-> [filename |-> PathOf(k),                    \* lines 492-494
                 author   |-> <<>>,
                 date     |-> e.date,
                 tags     |-> string_or_list_string(e.tags).val,
                 title    |-> e.title,
                 body     |-> <<"n", "o">>]]                \* line 496

\* lines 270-278: the record handed to add_document
MkRecord(k, doc, t) ==
  [author    |-> doc.author,
   body      |-> doc.body,
   date      |-> WithTimezoneUtc(t),
   filename  |-> doc.filename,
   full_path |-> PathOf(k),
   tags      |-> Join(doc.tags),
   title     |-> doc.title]

(* ---------------------------- index engine ----------------------------- *)
\* create_in_ram reopening the records of the previous run
open_existing(old) == old

\* Index::create_in_ram (line 251): every run starts from an empty index
create_in_ram(old) == <<>>

\* IndexWriter::add_document: stages one record
add_document(staged, r) == Append(staged, r)

\* QueryParser::parse_query over the default fields (line 301): an
\* unbalanced quote is a syntax error, otherwise the query is its terms
parse_query(s) ==
  IF CountQuotes(s) % 2 = 1 THEN [ok |-> FALSE, terms |-> {}]
  ELSE [ok |-> TRUE, terms |-> Tokenize(s)]

\* the default fields author, body, filename, tags, title
DocTokens(r) ==
  Tokenize(r.author) \cup Tokenize(r.body) \cup Tokenize(r.filename)
    \cup Tokenize(r.tags) \cup Tokenize(r.title)

Matches(r, q) == q.terms \cap DocTokens(r) # {}

\* search without the TopDocs limit
search_unbounded(records, q, limit) ==
  SelectSeq(records, LAMBDA r : Matches(r, q))

\* Searcher::search with TopDocs::with_limit(limit): the matching visible
\* records, at most limit of them
search(records, q, limit) ==
  LET hits == SelectSeq(records, LAMBDA r : Matches(r, q))
  IN  SubSeq(hits, 1, IF Len(hits) < limit THEN Len(hits) ELSE limit)

\* lines 419-429: the titles of the hits
Titles(hits) == [i \in 1..Len(hits) |-> hits[i].title]

\* lines 155-191: the document printed for a hit of the batch query; the
\* date field is not a text field, so `.text()` yields nothing for it
From(r) ==
  [filename  |-> r.filename,
   author    |-> r.author,
   title     |-> r.title,
   body      |-> <<>>,
   date      |-> <<>>,
   tags      |-> <<<<"f", "o", "o">>>>,
   full_path |-> <<>>]

(* ----------------------------- TerminalApp ----------------------------- *)
\* `self.matches.len() - 1` on usize: a debug build panics on overflow, a
\* release build wraps
LenMinus1(len, bld) ==
  IF len > 0 THEN [panic |-> FALSE, val |-> len - 1]
  ELSE IF bld = "debug" THEN [panic |-> TRUE, val |-> 0]
  ELSE [panic |-> FALSE, val |-> UsizeMax]

\* next comparing against len instead of len - 1
next_past_end(sel, len, bld) ==
  IF sel = None THEN [panic |-> FALSE, sel |-> Some(0)]
  ELSE IF sel[1] >= len THEN [panic |-> FALSE, sel |-> Some(0)]
  ELSE [panic |-> FALSE, sel |-> Some(sel[1] + 1)]

\* lines 60-72
next(sel, len, bld) ==
  IF sel = None THEN [panic |-> FALSE, sel |-> Some(0)]
  ELSE LET i == sel[1]
           m == LenMinus1(len, bld)
       IN  IF m.panic THEN [panic |-> TRUE, sel |-> sel]
           ELSE IF i >= m.val THEN [panic |-> FALSE, sel |-> Some(0)]
           ELSE [panic |-> FALSE, sel |-> Some(i + 1)]

\* previous starting from the last result when nothing is highlighted
previous_from_last(sel, len, bld) ==
  LET m == LenMinus1(len, bld)
  IN  IF sel = None
        THEN IF m.panic THEN [panic |-> TRUE, sel |-> sel]
             ELSE [panic |-> FALSE, sel |-> Some(m.val)]
      ELSE IF sel[1] = 0
        THEN IF m.panic THEN [panic |-> TRUE, sel |-> sel]
             ELSE [panic |-> FALSE, sel |-> Some(m.val)]
      ELSE [panic |-> FALSE, sel |-> Some(sel[1] - 1)]

\* lines 74-86
previous(sel, len, bld) ==
  IF sel = None THEN [panic |-> FALSE, sel |-> Some(0)]
  ELSE LET i == sel[1]
           m == LenMinus1(len, bld)
       IN  IF i = 0
             THEN IF m.panic THEN [panic |-> TRUE, sel |-> sel]
                  ELSE [panic |-> FALSE, sel |-> Some(m.val)]
             ELSE [panic |-> FALSE, sel |-> Some(i - 1)]

\* lines 52-58: matches[i] panics when i is out of bounds
get_selected(sel, ms) ==
  IF sel = None THEN [panic |-> FALSE, ret |-> <<>>]
  ELSE IF sel[1] < Len(ms) THEN [panic |-> FALSE, ret |-> <<ms[sel[1] + 1]>>]
  ELSE [panic |-> TRUE, ret |-> <<>>]

Min(a, b) == IF a < b THEN a ELSE b

\* the list widget's window of h rows over len one-row items: it starts at
\* the old offset and is moved just far enough to show the highlighted item
get_items_bounds(sel, off, len, h) ==
  LET start0 == Min(off, len - 1)
      end0 == Min(start0 + h, len)
      s == Min(IF sel = None THEN 0 ELSE sel[1], len - 1)
  IN  IF s >= end0 THEN s + 1 - h
      ELSE IF s < start0 THEN s
      ELSE start0

\* line 373: rendering the list stores the start of the window in the
\* ListState; an empty list is not drawn
render_stateful_widget(sel, off, len, h) ==
  IF len = 0 THEN off ELSE get_items_bounds(sel, off, len, h)

(* ------------------------------- state --------------------------------- *)
VARIABLES
  build,      \* "debug" (overflow checks) or "release" (wrapping arithmetic)
  files,      \* the corpus: what the glob yields, in enumeration order
  prev,       \* None in a first run; afterwards the paths the previous
              \* run committed and the file edited since (0: no file)
  cli_query,  \* the `query` subcommand's argument, or None
  pc,         \* where main is
  entry,      \* position of the for loop of line 254 in the enumeration
  pending,    \* records staged in the index writer
  visible,    \* records committed to the index
  commits,    \* commits issued in this run
  stderr,     \* paths reported on the error stream in this run
  stdout,     \* documents printed by the batch query
  key,        \* the last input event read (line 390), or None
  input,      \* TerminalApp.input
  matches,    \* TerminalApp.matches
  state,      \* TerminalApp.state.selected()
  offset,     \* TerminalApp.state.offset: the first title drawn
  selected    \* the final selection (line 303)

vars == <<build, files, prev, cli_query, pc, entry, pending,
          visible, commits, stderr, stdout, key, input, matches, state,
          offset, selected>>

corpus == <<build, files, prev, cli_query>>
index == <<pending, visible, commits, stderr>>
app == <<input, matches, state, offset, selected>>

CliQueries == {None, Some(<<"a">>), Some(<<Quote>>)}

\* the state of a freshly started process
Fresh ==
  /\ pc = "start"
  /\ entry = 1
  /\ pending = <<>>
  /\ visible = <<>>
  /\ commits = 0
  /\ stderr = <<>>
  /\ stdout = <<>>
  /\ key = None
  /\ input = <<>>
  /\ matches = <<>>
  /\ state = None
  /\ offset = 0
  /\ selected = <<>>

\* a first run over a corpus of notes, some with an unparseable date
Init ==
  /\ build \in {"debug", "release"}
  /\ files \in Notes
  /\ prev = None
  /\ cli_query \in CliQueries
  /\ Fresh

\* a first run over any corpus
InitSync ==
  /\ build \in {"debug", "release"}
  /\ files \in Corpora
  /\ prev = None
  /\ cli_query \in CliQueries
  /\ Fresh

\* a first run over a large corpus
InitLimit ==
  /\ build \in {"debug", "release"}
  /\ files \in BigCorpora
  /\ prev = None
  /\ cli_query \in CliQueries
  /\ Fresh

(* --------------------------- indexing run ------------------------------ *)
\* line 254: glob_files succeeds
GlobFiles ==
  /\ pc = "start"
  /\ pc' = "indexing"
  /\ UNCHANGED <<corpus, entry, index, stdout, key, app>>

\* line 254: glob_files fails (unreadable config, bad pattern): expect panics
GlobFilesFail ==
  /\ pc = "start"
  /\ pc' = "aborted"
  /\ UNCHANGED <<corpus, entry, index, stdout, key, app>>

AtEntry == pc = "indexing" /\ entry <= Len(files)

\* line 293: the glob reports an error for this entry
EntryGlobErr ==
  /\ AtEntry
  /\ files[entry].glob = "err"
  /\ stderr' = Append(stderr, PathOf(entry))
  /\ entry' = entry + 1
  /\ UNCHANGED <<corpus, pc, pending, visible, commits, stdout, key, app>>

\* lines 482, 491: an unwrap inside index_file panics
EntryPanic ==
  /\ AtEntry
  /\ files[entry].glob = "ok"
  /\ index_file(entry, files[entry]).res = "panic"
  /\ pc' = "panicked"
  /\ UNCHANGED <<corpus, entry, index, stdout, key, app>>

\* line 289: index_file returned an error
EntryLoadFail ==
  /\ AtEntry
  /\ files[entry].glob = "ok"
  /\ index_file(entry, files[entry]).res = "err"
  /\ stderr' = Append(stderr, PathOf(entry))
  /\ entry' = entry + 1
  /\ UNCHANGED <<corpus, pc, pending, visible, commits, stdout, key, app>>

\* lines 265-267: the date parses in neither format
EntryBadDate ==
  /\ AtEntry
  /\ files[entry].glob = "ok"
  /\ LET r == index_file(entry, files[entry])
     IN  /\ r.res = "ok"
         /\ ParseDate(r.doc.date) = None
  /\ stderr' = Append(stderr, PathOf(entry))
  /\ entry' = entry + 1
  /\ UNCHANGED <<corpus, pc, pending, visible, commits, stdout, key, app>>

\* lines 269-281: the document is staged
EntryAdd ==
  /\ AtEntry
  /\ files[entry].glob = "ok"
  /\ LET r == index_file(entry, files[entry])
     IN  /\ r.res = "ok"
         /\ ParseDate(r.doc.date) # None
         /\ pending' = add_document(pending,
                         MkRecord(entry, r.doc, ParseDate(r.doc.date)[1]))
  /\ entry' = entry + 1
  /\ UNCHANGED <<corpus, pc, visible, commits, stderr, stdout, key, app>>

\* Commit placed inside the for loop: the query phase may start from any entry
CommitEarly ==
  /\ pc = "indexing"
  /\ visible' = visible \o pending
  /\ pending' = <<>>
  /\ commits' = commits + 1
  /\ pc' = IF cli_query = None THEN "draw" ELSE "batch"
  /\ UNCHANGED <<corpus, entry, stderr, stdout, key, app>>

\* lines 297-305: commit, open the searcher, choose the mode
Commit ==
  /\ pc = "indexing"
  /\ entry > Len(files)
  /\ visible' = visible \o pending
  /\ pending' = <<>>
  /\ commits' = commits + 1
  /\ pc' = IF cli_query = None THEN "draw" ELSE "batch"
  /\ UNCHANGED <<corpus, entry, stderr, stdout, key, app>>

\* lines 305-332: the batch query
BatchQuery ==
  /\ pc = "batch"
  /\ LET q == parse_query(cli_query[1])
     IN  IF ~q.ok
           THEN /\ pc' = "error"                            \* line 314 `?`
                /\ UNCHANGED stdout
           ELSE /\ LET hits == search(visible, q, Limit)
                   IN  stdout' = [i \in 1..Len(hits) |-> From(hits[i])]
                /\ pc' = "done"
  /\ UNCHANGED <<corpus, entry, index, key, app>>

(* -------------------------- interactive loop --------------------------- *)
\* Draw with a list widget that moves the highlight onto the last title
\* when it is past the end of the list
DrawClamps ==
  /\ pc = "draw"
  /\ pc' = "poll"
  /\ offset' = render_stateful_widget(state, offset, Len(matches), ListHeight)
  /\ state' = IF state # None /\ matches # <<>> /\ state[1] >= Len(matches)
                THEN Some(Len(matches) - 1) ELSE state
  /\ UNCHANGED <<corpus, entry, index, stdout, key, input, matches, selected>>

\* lines 351-387: terminal.draw; the list widget is handed app.state mutably
\* (line 373) and scrolls it, the closure only reads input and matches
Draw ==
  /\ pc = "draw"
  /\ pc' = "poll"
  /\ offset' = render_stateful_widget(state, offset, Len(matches), ListHeight)
  /\ UNCHANGED <<corpus, entry, index, stdout, key, input, matches, state,
                 selected>>

\* Requery without line 418: the hits are pushed onto the previous list
RequeryAppend(buf) ==
  LET q == parse_query(buf)
  IN  IF ~q.ok
        THEN /\ pc' = "error"
             /\ UNCHANGED matches
        ELSE /\ matches' = matches \o Titles(search(visible, q, Limit))
             /\ pc' = "draw"

\* lines 415-429: the re-query that follows every input event
Requery(buf) ==
  LET q == parse_query(buf)
  IN  IF ~q.ok
        THEN /\ pc' = "error"                               \* line 415 `?`
             /\ UNCHANGED matches
        ELSE /\ matches' = Titles(search(visible, q, Limit))
             /\ pc' = "draw"

\* the highlighted index stays within the modelled range
InRange(sel) ==
  sel = None \/ sel[1] <= Len(visible) + MaxSel \/ sel[1] >= UsizeMax - MaxSel

\* lines 392-396
KeyEnter ==
  /\ pc = "poll"
  /\ key' = Some("Enter")
  /\ LET g == get_selected(state, matches)
     IN  IF g.panic
           THEN pc' = "panicked" /\ UNCHANGED selected
           ELSE pc' = "accepted" /\ selected' = g.ret
  /\ UNCHANGED <<corpus, entry, index, stdout, offset, input, matches, state>>

\* KeyCtrlC falling into the Enter arm: the highlighted title is captured
KeyCtrlCSelects ==
  /\ pc = "poll"
  /\ key' = Some("CtrlC")
  /\ pc' = "cancelled"
  /\ selected' = get_selected(state, matches).ret
  /\ UNCHANGED <<corpus, entry, index, stdout, offset, input, matches, state>>

\* lines 397-399
KeyCtrlC ==
  /\ pc = "poll"
  /\ key' = Some("CtrlC")
  /\ pc' = "cancelled"
  /\ UNCHANGED <<corpus, entry, index, stdout, app>>

\* lines 400-402
KeyChar ==
  /\ pc = "poll"
  /\ key' = Some("Char")
  /\ Len(input) < MaxInput
  /\ \E c \in Keys :
       /\ input' = Append(input, c)
       /\ Requery(input')
  /\ UNCHANGED <<corpus, entry, index, stdout, offset, state, selected>>

\* pop removing the first character instead of the last
pop_front(s) == IF s = <<>> THEN s ELSE Tail(s)

\* String::pop
pop(s) == IF s = <<>> THEN s ELSE SubSeq(s, 1, Len(s) - 1)

\* lines 403-405
KeyBackspace ==
  /\ pc = "poll"
  /\ key' = Some("Backspace")
  /\ input' = pop(input)
  /\ Requery(input')
  /\ UNCHANGED <<corpus, entry, index, stdout, offset, state, selected>>

\* lines 406-408
KeyDown ==
  /\ pc = "poll"
  /\ key' = Some("Down")
  /\ LET n == next(state, Len(matches), build)
     IN  IF n.panic
           THEN pc' = "panicked" /\ UNCHANGED <<state, matches>>
           ELSE /\ InRange(n.sel)
                /\ state' = n.sel
                /\ Requery(input)
  /\ UNCHANGED <<corpus, entry, index, stdout, offset, input, selected>>

\* lines 409-411
KeyUp ==
  /\ pc = "poll"
  /\ key' = Some("Up")
  /\ LET n == previous(state, Len(matches), build)
     IN  IF n.panic
           THEN pc' = "panicked" /\ UNCHANGED <<state, matches>>
           ELSE /\ InRange(n.sel)
                /\ state' = n.sel
                /\ Requery(input)
  /\ UNCHANGED <<corpus, entry, index, stdout, offset, input, selected>>

\* line 412: any other key
KeyOther ==
  /\ pc = "poll"
  /\ key' = Some("Other")
  /\ Requery(input)
  /\ UNCHANGED <<corpus, entry, index, stdout, offset, input, state, selected>>

(* ----------------------------- next run -------------------------------- *)
Ended ==
  pc \in {"accepted", "cancelled", "done", "error", "panicked", "aborted"}

\* a run stages the entry: the glob yields it, index_file loads it and its
\* date parses (lines 255-269)
Indexable(k, e) ==
  /\ e.glob = "ok"
  /\ index_file(k, e).res = "ok"
  /\ ParseDate(index_file(k, e).doc.date) # None

\* the paths the run has committed
Committed == {visible[i].full_path : i \in 1..Len(visible)}

\* the program is started again (line 193); the index is built anew
Restart ==
  /\ Ended
  /\ \/ /\ files' = files
        /\ prev' = Some([committed |-> Committed, edited |-> 0])
     \/ \E k \in 1..Len(files) : \E c \in FileContents \ {files[k]} :
          /\ files' = [files EXCEPT ![k] = c]
          /\ prev' = Some([committed |-> Committed, edited |-> k])
  /\ pc' = "start"
  /\ entry' = 1
  /\ pending' = <<>>
  /\ visible' = create_in_ram(visible)
  /\ commits' = 0
  /\ stderr' = <<>>
  /\ stdout' = <<>>
  /\ key' = None
  /\ input' = <<>>
  /\ matches' = <<>>
  /\ state' = None
  /\ offset' = 0
  /\ selected' = <<>>
  /\ UNCHANGED <<build, cli_query>>

\* one run of the program over a corpus of notes
Next ==
  \/ GlobFiles
  \/ EntryBadDate
  \/ EntryAdd
  \/ Commit
  \/ BatchQuery
  \/ Draw
  \/ KeyEnter
  \/ KeyCtrlC
  \/ KeyChar
  \/ KeyBackspace
  \/ KeyDown
  \/ KeyUp
  \/ KeyOther

Spec == Init /\ [][Next]_vars

\* repeated runs over any corpus; the user of the finder only cancels
NextSync ==
  \/ GlobFiles
  \/ GlobFilesFail
  \/ EntryGlobErr
  \/ EntryPanic
  \/ EntryLoadFail
  \/ EntryBadDate
  \/ EntryAdd
  \/ Commit
  \/ BatchQuery
  \/ Draw
  \/ KeyCtrlC
  \/ Restart

SpecSync == InitSync /\ [][NextSync]_vars

\* one run over a large corpus; the user of the finder types and cancels
NextLimit ==
  \/ GlobFiles
  \/ EntryAdd
  \/ Commit
  \/ BatchQuery
  \/ Draw
  \/ KeyChar
  \/ KeyBackspace
  \/ KeyCtrlC

SpecLimit == InitLimit /\ [][NextLimit]_vars

(* ------------------------------ properties ----------------------------- *)
Editing == pc \in {"draw", "poll"}

\* C1: when typing or backspacing leaves a buffer the index engine rejects
\* as a query, the loop stays in Editing, the result list becomes empty and
\* the highlighted index becomes none.
C1_ParseFailureKeepsEditing ==
  [][((KeyChar \/ KeyBackspace) /\ ~parse_query(input').ok)
       => (pc' \in {"draw", "poll"} /\ matches' = <<>> /\ state' = None)]_vars

\* C2: with an empty result list, arrow-down and arrow-up leave the
\* highlighted index unchanged and raise no error.
C2_ArrowOnEmptyIsNoOp ==
  [][((KeyDown \/ KeyUp) /\ matches = <<>>)
       => (state' = state /\ pc' \in {"draw", "poll"})]_vars

\* C3: Enter always ends the loop in Accepted with zero or one selected
\* item: the highlighted title if an index is highlighted, nothing otherwise.
C3_EnterAccepts ==
  [][KeyEnter
       => /\ pc' = "accepted"
          /\ Len(selected') <= 1
          /\ state = None => selected' = <<>>
          /\ state # None =>
               /\ state[1] < Len(matches)
               /\ selected' = <<matches[state[1] + 1]>>]_vars

\* C4: for N >= 1 results and a highlighted index i < N, arrow-down moves
\* the highlight to (i+1) mod N and arrow-up to (i-1+N) mod N.
C4_ArrowsWrapAround ==
  [][(Len(matches) >= 1 /\ state # None /\ state[1] < Len(matches))
       => LET N == Len(matches)
              i == state[1]
          IN  /\ KeyDown => state' = Some((i + 1) % N)
              /\ KeyUp => state' = Some((i - 1 + N) % N)]_vars

\* C4 witness: arrow-up has wrapped from the first to the last of two results
C4_Witness ==
  /\ pc = "draw"
  /\ key = Some("Up")
  /\ Len(matches) = 2
  /\ state = Some(1)

\* C5: after a character or Backspace has been processed and the loop is
\* about to read the next event, the result list is exactly the titles the
\* query executor returns for the new buffer.
C5_ResultsFollowBuffer ==
  (Editing /\ key \in {Some("Char"), Some("Backspace")})
    => /\ parse_query(input).ok
       /\ matches = Titles(search(visible, parse_query(input), Limit))

\* C5 witness: a Backspace widened the result list from one title to two
C5_Witness ==
  /\ pc = "draw"
  /\ key = Some("Backspace")
  /\ input = <<"a">>
  /\ Len(matches) = 2

Range(q) == {q[i] : i \in 1..Len(q)}

\* the per-file failures the error taxonomy calls recoverable
ListedFailure(e) ==
  /\ e.glob = "ok"
  /\ \/ ~e.readable
     \/ e.readable /\ e.fm = "none"
     \/ e.readable /\ e.fm = "yaml" /\ ("title" \notin e.keys \/ "date" \notin e.keys)
     \/ /\ e.readable /\ e.fm = "yaml" /\ AllKeys \subseteq e.keys
        /\ ParseRfc3339(e.date) = None
        /\ ParseFallback(e.date) = None

\* C6: in a run whose files are all either indexable or fail in a
\* recoverable way, the run is not aborted: it processes every file, commits,
\* reports each failing file and indexes none of them.
C6_FailuresDoNotAbort ==
  (/\ Ended
   /\ pc # "aborted"
   /\ \A k \in 1..Len(files) : Indexable(k, files[k]) \/ ListedFailure(files[k]))
    => /\ entry = Len(files) + 1
       /\ commits = 1
       /\ \A k \in 1..Len(files) :
            ListedFailure(files[k])
              => PathOf(k) \in Range(stderr) /\ PathOf(k) \notin Committed

\* C7: a run over a corpus no file of which changed since the previous run
\* adds no file the previous run committed.
C7_SecondRunAddsNothing ==
  (prev # None /\ prev[1].edited = 0)
    => \A r \in Range(pending) \cup Range(visible) :
         r.full_path \notin prev[1].committed

Count(p) == Cardinality({i \in 1..Len(visible) : visible[i].full_path = p})

\* C8: after the commit of a run, the index holds exactly one record for the
\* full_path of each file the run indexed, and no full_path has two records.
C8_OneRecordPerPath ==
  commits >= 1
    => /\ \A k \in 1..Len(files) : Indexable(k, files[k]) => Count(PathOf(k)) = 1
       /\ \A p \in Committed : Count(p) = 1

\* C8 witness: a file the previous run indexed was edited, and this run has
\* committed it again
C8_Witness ==
  /\ prev # None
  /\ prev[1].edited # 0
  /\ PathOf(prev[1].edited) \in prev[1].committed
  /\ commits = 1
  /\ PathOf(prev[1].edited) \in Committed

\* C9: every staged or committed record comes from a file whose date parses
\* as RFC-3339 or in the fallback pattern.
C9_OnlyParsedDatesIndexed ==
  \A r \in Range(pending) \cup Range(visible) :
    \E k \in 1..Len(files) :
      /\ r.full_path = PathOf(k)
      /\ \/ ParseRfc3339(files[k].date) # None
         \/ ParseFallback(files[k].date) # None

\* C9 witness: a run has skipped a file with an unparseable date and
\* committed a file whose date is in the fallback pattern
C9_Witness ==
  /\ commits = 1
  /\ \E k \in 1..Len(files) :
       /\ files[k] = BadDateNote
       /\ PathOf(k) \in Range(stderr)
       /\ PathOf(k) \notin Committed
  /\ \E k \in 1..Len(files) :
       /\ files[k] = NoteAB
       /\ PathOf(k) \in Committed

\* C10: a run that no setup error aborts commits exactly once, and only
\* after the last file of the enumeration has been processed.
C10_CommitExactlyOnce ==
  /\ commits <= 1
  /\ commits = 1 => entry = Len(files) + 1
  /\ (Ended /\ pc # "aborted") => commits = 1


\* C11: an interrupt ends the loop in Cancelled with an empty selection,
\* whatever result was highlighted.
C11_CtrlCCancels ==
  [][KeyCtrlC => (pc' = "cancelled" /\ selected' = <<>>)]_vars

\* C11 witness: the loop was cancelled while a result was highlighted
C11_Witness ==
  /\ pc = "cancelled"
  /\ key = Some("CtrlC")
  /\ state # None
  /\ state[1] < Len(matches)


\* C12: a printable character is appended at the end of the buffer, a
\* Backspace removes exactly its last character, and a Backspace on the empty
\* buffer leaves it empty.
C12_BufferIsStack ==
  [][/\ KeyChar => \E c \in Keys : input' = input \o <<c>>
     /\ KeyBackspace =>
          IF input = <<>> THEN input' = <<>>
          ELSE input' \o <<input[Len(input)]>> = input]_vars

\* C12 witness: a Backspace has taken the second of two typed characters
C12_Witness ==
  /\ pc = "draw"
  /\ key = Some("Backspace")
  /\ Len(input) = 1


\* C13: neither the batch query nor any keystroke of the finder yields more
\* than Limit results, however many documents match.
C13_AtMostLimitResults ==
  /\ Len(matches) <= Limit
  /\ Len(stdout) <= Limit

\* C13 witness: more than Limit documents match the typed query and the
\* result list holds Limit titles
C13_Witness ==
  /\ key = Some("Char")
  /\ input = <<"a">>
  /\ Len(visible) > Limit
  /\ Len(matches) = Limit


\* the text of a stored UTC instant, "2021-06-DDThh:48:16Z" kept as DDThhZ
DateText(t) == Decimal(t.day) \o <<"T">> \o Decimal(t.hour) \o <<"Z">>

\* C14: every document the batch query prints carries the stored filename,
\* full_path, author, date, tags and title of its record, and an empty body.
C14_ProjectionCarriesStoredFields ==
  pc = "done"
    => LET hits == search(visible, parse_query(cli_query[1]), Limit)
       IN  /\ Len(stdout) = Len(hits)
           /\ \A i \in 1..Len(hits) :
                /\ stdout[i].filename = hits[i].filename
                /\ stdout[i].author = hits[i].author
                /\ stdout[i].title = hits[i].title
                /\ stdout[i].body = <<>>
                /\ stdout[i].full_path = hits[i].full_path
                /\ stdout[i].date = DateText(hits[i].date)
                /\ Join(stdout[i].tags) = hits[i].tags


\* what parsing a tags value is to yield: the one-element sequence of a
\* scalar string, the sequence itself for a sequence of strings
ExpectedTags(v) == IF v.kind = "str" THEN <<v.str>> ELSE v.seq

\* C15: the document index_file loads from a file whose tags value is a
\* scalar string holds the one-element sequence of that string, and from a
\* file whose tags value is a sequence of strings exactly that sequence; the
\* staged record holds these tags joined.
C15_TagsScalarOrSequence ==
  /\ \A k \in 1..Len(files) :
       LET e == files[k]
       IN  (e.glob = "ok" /\ e.readable /\ e.fm = "yaml"
              /\ AllKeys \subseteq e.keys /\ e.tags.kind \in {"str", "seq"})
             => /\ index_file(k, e).res = "ok"
                /\ index_file(k, e).doc.tags = ExpectedTags(e.tags)
  /\ \A r \in Range(pending) \cup Range(visible) :
       \E k \in 1..Len(files) :
         /\ r.full_path = PathOf(k)
         /\ r.tags = Join(ExpectedTags(files[k].tags))

\* C15 witness: a note with a scalar tag and a note with a sequence of tags,
\* one of them twice, have been committed
C15_Witness ==
  /\ commits = 1
  /\ files = <<NoteB, NoteAB>>
  /\ Len(visible) = 2


\* a step that executes a query: the batch query or the re-query of an event
QueryStep ==
  BatchQuery \/ KeyChar \/ KeyBackspace \/ KeyDown \/ KeyUp \/ KeyOther

\* C16: a query is executed only after the run has processed every file and
\* committed, against the records of all the files the run indexed.
C16_QueriesFollowCommit ==
  [][QueryStep
       => /\ entry = Len(files) + 1
          /\ commits = 1
          /\ pending = <<>>
          /\ Committed = {PathOf(k) : k \in {j \in 1..Len(files) :
                                               Indexable(j, files[j])}}]_vars

\* C16 witness: the first keystroke has been answered from a committed index
\* of two notes
C16_Witness ==
  /\ pc = "draw"
  /\ key = Some("Char")
  /\ Len(input) = 1
  /\ Len(files) = 2
  /\ Len(matches) = 2


\* C17: while the loop is editing, the highlighted index is none or less than
\* the length of the result list.
C17_HighlightWithinList ==
  Editing => (state = None \/ state[1] < Len(matches))


\* C18: a render leaves the input buffer, the result list and the highlighted
\* index as they were.
C18_RenderKeepsState ==
  [][Draw => (input' = input /\ matches' = matches /\ state' = state)]_vars

\* C18 witness: a render has scrolled the list to the highlighted second
\* title
C18_Witness ==
  /\ pc = "poll"
  /\ Len(matches) = 2
  /\ state = Some(1)
  /\ offset = 1


\* C19: with a non-empty result list and nothing highlighted, arrow-down and
\* arrow-up both highlight index 0.
C19_FirstArrowSelectsFirst ==
  [][((KeyDown \/ KeyUp) /\ matches # <<>> /\ state = None)
       => state' = Some(0)]_vars

\* C19 witness: an arrow-up has highlighted the first of two results
C19_Witness ==
  /\ pc = "draw"
  /\ key = Some("Up")
  /\ Len(matches) = 2
  /\ state = Some(0)

====
